---- MODULE Spec2Model ----
(***************************************************************************)
(* Cardiac-risk prediction backend (ml-backend/main.py): the prediction    *)
(* history store (in-memory cache + SQLite log), the handlers that write   *)
(* and read it, the feature engineering done at serving time               *)
(* (preprocess_input) and at training time (engineer_features), the        *)
(* scoring of /predict (ensemble, confidence, risk level), /batch-predict, *)
(* /health and /model-info, and the event loop serving concurrent          *)
(* requests.                                                               *)
(*                                                                         *)
(* Identifiers "pred-<n>" are modelled by the integer n.  A record of the  *)
(* history carries, besides the fields the code gives it, the number req   *)
(* of the predict call that created it (history variable, not read by the  *)
(* program).                                                               *)
(***************************************************************************)
EXTENDS Integers, Sequences, FiniteSets, TLC

\* ------------------------------------------------------------------ bounds
\* predict calls in one behaviour of Spec
MaxReq == 3
\* predict calls in one behaviour of SpecLong (beyond the cache limit)
MaxLong == 502
\* patients in one /batch-predict request of SpecBatch
MaxBatch == 2
\* predict requests in flight at once in SpecConc
MaxTasks == 3
\* predict calls in one behaviour of SpecOps
MaxOps == 2

\* ------------------------------------------------------- program constants
\* main.py:448  "if len(history) > 500: del history[500:]"
CacheMax == 500
\* main.py:426  int(time.time() * 1000): the millisecond clock at startup;
\* it is far above every AUTOINCREMENT row id the log reaches.
ClockStart == 100000

Users == {"A", "B"}
\* request.headers.get("X-User-Id") when the header is not sent (None)
NoHeader == "<none>"
Headers == Users \cup {"", NoHeader}
\* the limit query parameter of /history (an unconstrained int)
Limits == {-1, 0, 1, 2, 10}
\* milliseconds that pass between two requests
Steps == {0, 1}
\* what can raise inside predict's try block
Faults == {"none", "scoring", "sqlite"}

VARIABLES
    prediction_history,  \* the cache: user_id -> list of records, newest first
    db,         \* rows of table predictions, in insertion order
    now,        \* time.time() in milliseconds
    feat,       \* a patient and its engineered features (serving, training)
    srv,        \* loaded artifacts, one /predict request, what predict computed
    call,       \* the request being served
    resp,       \* the response it got
    nreq,       \* history: number of predict calls so far
    subjectOf,  \* history: req -> X-User-Id of the call that created a record
    delivered,  \* history: reqs answered 200 with a subject since the last reset
    inserted,   \* history: user_id -> reqs put in the cache since startup, oldest first
    wasReset,   \* history: init_db(reset=True) has been called
    loop        \* the event loop: the predict coroutines in flight

vars ==
    <<prediction_history, db, now, feat, srv, call, resp,
      nreq, subjectOf, delivered, inserted, wasReset, loop>>

histVars ==
    <<prediction_history, db, now, call, resp,
      nreq, subjectOf, delivered, inserted, wasReset, loop>>

\* ----------------------------------------------------------------- helpers
Min(a, b) == IF a < b THEN a ELSE b

Max(a, b) == IF a > b THEN a ELSE b

Reverse(s) == [i \in 1..Len(s) |-> s[Len(s) + 1 - i]]

\* Python's s[:n]
PySlice(s, n) ==
    IF n >= 0 THEN SubSeq(s, 1, Min(n, Len(s)))
    ELSE SubSeq(s, 1, Max(Len(s) + n, 0))

\* Python's del s[n:] for n >= 0
PyDelFrom(s, n) == SubSeq(s, 1, Min(n, Len(s)))

\* SQLite's LIMIT n: a negative n is no limit
SqlLimit(s, n) == IF n < 0 THEN s ELSE SubSeq(s, 1, Min(n, Len(s)))

\* (mutant) if user_id is not None: the empty header value counts
TruthyNotNone(user_id) == user_id # NoHeader

\* Python truthiness of the header value: None and "" are false
Truthy(user_id) == user_id \notin {NoHeader, ""}

\* (mutant) one list shared by all subjects
CacheGetShared(c, user_id) ==
    IF DOMAIN c # {} THEN c[CHOOSE k \in DOMAIN c : TRUE] ELSE <<>>

\* prediction_history.get(user_id, [])
CacheGet(c, user_id) == IF user_id \in DOMAIN c THEN c[user_id] ELSE <<>>

\* (mutant) prediction_history.setdefault(user_id, [])
DictAfterSetdefault(c, user_id) ==
    [k \in DOMAIN c \cup {user_id} |-> IF k \in DOMAIN c THEN c[k] ELSE <<>>]

\* the dict after prediction_history.get(user_id, []): get adds no key
DictAfterGet(c, user_id) == c

\* ------------------------------------------------------------ history store
\* the record predict builds: id from the millisecond clock, created_at from
\* the response's timestamp
NewRecord(t, r) == [id |-> t, created_at |-> t, req |-> r]

\* (mutant) history.append(record)
InsertTail(history, record) == history \o <<record>>

\* history.insert(0, record)
InsertHead(history, record) == <<record>> \o history

\* (mutant) the newest entries are deleted instead of the oldest
TruncateHistoryHead(history) ==
    IF Len(history) > CacheMax
    THEN SubSeq(history, Len(history) - CacheMax + 1, Len(history)) ELSE history

\* if len(history) > 500: del history[500:]
TruncateHistory(history) ==
    IF Len(history) > CacheMax THEN PyDelFrom(history, CacheMax) ELSE history

\* history = prediction_history.setdefault(user_id, []); insert; truncate
CachePut(c, user_id, record) ==
    [k \in DOMAIN c \cup {user_id} |->
        IF k = user_id
        THEN TruncateHistory(InsertHead(CacheGet(c, user_id), record))
        ELSE c[k]]

\* (mutant) INSERT OR REPLACE on the newest row
save_prediction_replace(d, user_id, record) ==
    LET row == [rowid |-> Max(Len(d), 1), user_id |-> user_id,
                created_at |-> record.created_at, req |-> record.req]
    IN  IF d = <<>> THEN <<row>> ELSE [d EXCEPT ![Len(d)] = row]

\* INSERT INTO predictions (...): id INTEGER PRIMARY KEY AUTOINCREMENT.  Rows
\* are never deleted from a table, so the next id is the row count plus one.
save_prediction_to_db(d, user_id, record) ==
    Append(d, [rowid |-> Len(d) + 1, user_id |-> user_id,
               created_at |-> record.created_at, req |-> record.req])

\* one row as fetch_history_from_db returns it: "id": f"pred-{pid}"
RowToRecord(row) == [id |-> row.rowid, created_at |-> row.created_at, req |-> row.req]

\* SELECT ... WHERE user_id = ? ORDER BY id DESC LIMIT ?
fetch_history_from_db(d, user_id, limit) ==
    LET mine == SelectSeq(d, LAMBDA row : row.user_id = user_id)
        desc == Reverse(mine)
        rows == SqlLimit(desc, limit)
    IN  [i \in 1..Len(rows) |-> RowToRecord(rows[i])]

\* (mutant) the ids of the cache are the ones filtered out
MergeHistoryByMemIds(mem_history, db_history) ==
    LET combined_ids == {mem_history[i].id : i \in 1..Len(mem_history)}
    IN  mem_history \o SelectSeq(db_history, LAMBDA h : h.id \notin combined_ids)

\* combined_ids = {h["id"] for h in db_history}
\* combined = mem_history + [h for h in db_history if h["id"] not in combined_ids]
MergeHistory(mem_history, db_history) ==
    LET combined_ids == {db_history[i].id : i \in 1..Len(db_history)}
    IN  mem_history \o SelectSeq(db_history, LAMBDA h : h.id \notin combined_ids)

\* GET /history/{user_id}
get_prediction_history(c, d, user_id, limit) ==
    LET db_history == fetch_history_from_db(d, user_id, limit)
        mem_history == CacheGet(c, user_id)
        combined == PySlice(MergeHistory(mem_history, db_history), limit)
    IN  [op |-> "history", user_id |-> user_id, count |-> Len(combined),
         predictions |-> combined, limit |-> limit]

\* (mutant) the exception of save_prediction_to_db is swallowed
PredictStatusSwallow(fault) == IF fault = "scoring" THEN 500 ELSE 200

\* the status predict answers with: any exception in the try block, the one
\* of save_prediction_to_db included, becomes HTTPException(500)
PredictStatus(fault) == IF fault = "none" THEN 200 ELSE 500

\* the record is put in the cache once scoring has succeeded and the header
\* is truthy; the cache is written before the log
ReachesCache(user_id, fault) == Truthy(user_id) /\ fault # "scoring"

\* the row is committed when save_prediction_to_db does not raise
ReachesDb(user_id, fault) == Truthy(user_id) /\ fault = "none"

\* ------------------------------------------------------ feature engineering
\* the raw fields the engineered features read, at the values where the
\* rules change (in-range per PatientData: age 0..120, thalach 0..250, ...)
Ages == {0, 39, 40, 41, 50, 60, 61, 100, 101, 120}

Patients ==
    [age : Ages, sex : {0, 1}, trestbps : {140, 141}, chol : {240, 241},
     thalach : {0, 150, 181, 250}]

\* A float is modelled exactly, as the pair <<n, d>> for n/d with d > 0;
\* NaN is <<0, 0>>.
Num(n) == <<n, 1>>

NaN == <<0, 0>>

IsNaN(a) == a[2] = 0

\* == on floats: NaN equals nothing
FloatEq(a, b) == ~IsNaN(a) /\ ~IsNaN(b) /\ a[1] * b[2] = b[1] * a[2]

\* (age/100)*0.3 + (trestbps/200)*0.3 + (chol/300)*0.4
composite_risk(p) == <<18 * p.age + 9 * p.trestbps + 8 * p.chol, 6000>>

\* main.py: 0 if age < 40 else 1 if age < 50 else 2 if age < 60 else 3
serve_age_group(age) ==
    IF age < 40 THEN 0 ELSE IF age < 50 THEN 1 ELSE IF age < 60 THEN 2 ELSE 3

\* main.py: thalach / predicted_max_hr if predicted_max_hr > 0 else 0
serve_hr_reserve(p) ==
    LET predicted_max_hr == 220 - p.age
    IN  IF predicted_max_hr > 0 THEN <<p.thalach, predicted_max_hr>> ELSE Num(0)

\* the engineered columns preprocess_input appends, in its order
preprocess_input(p) ==
    << Num(serve_age_group(p.age)),
       Num(IF p.chol > 240 THEN 1 ELSE 0),
       Num(IF p.trestbps > 140 THEN 1 ELSE 0),
       serve_hr_reserve(p),
       composite_risk(p),
       Num(p.sex * p.age) >>

\* pd.cut(age, bins=[0, 40, 50, 60, 100], labels=[0, 1, 2, 3]): intervals
\* open on the left and closed on the right, NaN outside (0, 100]
train_age_group(age) ==
    IF age > 0 /\ age <= 40 THEN Num(0)
    ELSE IF age > 40 /\ age <= 50 THEN Num(1)
    ELSE IF age > 50 /\ age <= 60 THEN Num(2)
    ELSE IF age > 60 /\ age <= 100 THEN Num(3)
    ELSE NaN

\* (thalach / (220 - age)).clip(0, 1); a zero divisor gives inf (clipped to
\* 1) or, for 0/0, NaN
train_hr_reserve(p) ==
    LET predicted_max_hr == 220 - p.age
    IN  IF predicted_max_hr > 0
        THEN IF p.thalach > predicted_max_hr THEN Num(1)
             ELSE <<p.thalach, predicted_max_hr>>
        ELSE IF predicted_max_hr < 0 THEN Num(0)
        ELSE IF p.thalach > 0 THEN Num(1) ELSE NaN

\* the columns engineer_features adds, in the order it adds them (the 13 raw
\* fields hold no hdl column, so chol_hdl_ratio is not added)
engineer_features(p) ==
    << train_age_group(p.age),
       Num(IF p.chol > 240 THEN 1 ELSE 0),
       Num(IF p.trestbps > 140 THEN 1 ELSE 0),
       train_hr_reserve(p),
       composite_risk(p),
       Num(p.sex * p.age) >>

\* ------------------------------------------------------------------ scoring
\* exact arithmetic on the pairs <<n, d>> (d > 0), results in lowest terms
RECURSIVE GCD(_, _)
GCD(a, b) == IF b = 0 THEN a ELSE GCD(b, a % b)

Norm(a) ==
    LET g == GCD(IF a[1] < 0 THEN -a[1] ELSE a[1], a[2])
    IN  <<a[1] \div g, a[2] \div g>>

FAdd(a, b) == Norm(<<a[1] * b[2] + b[1] * a[2], a[2] * b[2]>>)

FSub(a, b) == Norm(<<a[1] * b[2] - b[1] * a[2], a[2] * b[2]>>)

FMul(a, b) == Norm(<<a[1] * b[1], a[2] * b[2]>>)

\* a / b for b > 0
FDiv(a, b) == Norm(<<a[1] * b[2], a[2] * b[1]>>)

FLt(a, b) == a[1] * b[2] < b[1] * a[2]

\* the largest r in lo..hi with r * r <= m (lo * lo <= m)
RECURSIVE SqrtBetween(_, _, _)
SqrtBetween(m, lo, hi) ==
    IF lo = hi THEN lo
    ELSE LET mid == (lo + hi + 1) \div 2
         IN  IF mid * mid <= m THEN SqrtBetween(m, mid, hi)
             ELSE SqrtBetween(m, lo, mid - 1)

\* floor of the square root of an integer below 2^31
ISqrt(m) == SqrtBetween(m, 0, 46340)

\* round(x, 2) of a float x >= 0, in hundredths (an exact tie goes to the
\* even neighbour)
Round2(x) ==
    LET num == 200 * x[1] + x[2]
        den == 2 * x[2]
        k == num \div den
    IN  IF num % den = 0 /\ k % 2 = 1 THEN k - 1 ELSE k

\* the order in which predict scores the models, which is the insertion
\* order of model_predictions
ModelOrder == <<"xgboost", "random_forest", "neural_network">>

ModelNames == {"xgboost", "random_forest", "neural_network"}

\* class PatientData: Field(..., ge=lo, le=hi) of the 13 required fields
FieldBounds ==
    [age |-> <<0, 120>>, sex |-> <<0, 1>>, cp |-> <<0, 3>>,
     trestbps |-> <<0, 300>>, chol |-> <<0, 600>>, fbs |-> <<0, 1>>,
     restecg |-> <<0, 2>>, thalach |-> <<0, 250>>, exang |-> <<0, 1>>,
     oldpeak |-> <<0, 10>>, slope |-> <<0, 2>>, ca |-> <<0, 4>>,
     thal |-> <<0, 3>>]

\* (mutant) only the lower bounds (ge=) are enforced
ValidPatientDataNoUpper(body) ==
    /\ DOMAIN FieldBounds \subseteq DOMAIN body
    /\ \A f \in DOMAIN FieldBounds : FieldBounds[f][1] <= body[f]

\* the request body parses into a PatientData: every field is there and
\* within its bounds
ValidPatientData(body) ==
    /\ DOMAIN FieldBounds \subseteq DOMAIN body
    /\ \A f \in DOMAIN FieldBounds :
          FieldBounds[f][1] <= body[f] /\ body[f] <= FieldBounds[f][2]

\* the fallback weights of lifespan
DefaultWeights ==
    [xgboost |-> <<40, 100>>, random_forest |-> <<35, 100>>,
     neural_network |-> <<25, 100>>]

\* ensemble_weights.get(model_name, 0.33)
WeightOf(ensemble_weights, model_name) ==
    IF model_name \in DOMAIN ensemble_weights
    THEN ensemble_weights[model_name] ELSE <<33, 100>>

\* the models predict calls for a request, in order, up to the first one
\* that raises: outputs[m] is what model m does for the request's features
ModelsScored(models, outputs) ==
    LET failing == {i \in 1..3 : ModelOrder[i] \in models
                                 /\ outputs[ModelOrder[i]].raises}
    IN  {ModelOrder[i] : i \in {j \in 1..3 :
            /\ ModelOrder[j] \in models
            /\ \A k \in failing : j <= k}}

\* a model call raised, which ends the try block
ScoringRaised(models, outputs) ==
    \E m \in ModelsScored(models, outputs) : outputs[m].raises

\* model_predictions[name] = float(pred * 100)
ModelPredictions(models, outputs) ==
    [m \in {x \in ModelsScored(models, outputs) : ~outputs[x].raises} |->
        FMul(outputs[m].proba, Num(100))]

\* for model_name, pred in model_predictions.items():
\*     ensemble_pred += (pred / 100) * ensemble_weights.get(model_name, 0.33)
RECURSIVE WeightedSum(_, _, _)
WeightedSum(model_predictions, ensemble_weights, i) ==
    IF i = 0 THEN Num(0)
    ELSE LET rest == WeightedSum(model_predictions, ensemble_weights, i - 1)
             name == ModelOrder[i]
         IN  IF name \in DOMAIN model_predictions
             THEN FAdd(rest, FMul(FDiv(model_predictions[name], Num(100)),
                                  WeightOf(ensemble_weights, name)))
             ELSE rest

\* (mutant) the weights of all three models are summed
RECURSIVE TotalWeightAll(_, _, _)
TotalWeightAll(model_predictions, ensemble_weights, i) ==
    IF i = 0 THEN Num(0)
    ELSE FAdd(TotalWeightAll(model_predictions, ensemble_weights, i - 1),
              WeightOf(ensemble_weights, ModelOrder[i]))

\* sum(ensemble_weights.get(m, 0.33) for m in model_predictions.keys())
RECURSIVE TotalWeight(_, _, _)
TotalWeight(model_predictions, ensemble_weights, i) ==
    IF i = 0 THEN Num(0)
    ELSE LET rest == TotalWeight(model_predictions, ensemble_weights, i - 1)
         IN  IF ModelOrder[i] \in DOMAIN model_predictions
             THEN FAdd(rest, WeightOf(ensemble_weights, ModelOrder[i]))
             ELSE rest

\* the ensemble prediction (lines 383-394)
EnsemblePred(model_predictions, ensemble_weights) ==
    IF DOMAIN model_predictions # {}
    THEN LET ensemble_pred == WeightedSum(model_predictions, ensemble_weights, 3)
             total_weight == TotalWeight(model_predictions, ensemble_weights, 3)
         IN  IF FLt(Num(0), total_weight)
             THEN FDiv(ensemble_pred, total_weight) ELSE ensemble_pred
    ELSE <<1, 2>>

\* sum of f over the keys of model_predictions
RECURSIVE SumPredictions(_, _)
SumPredictions(model_predictions, i) ==
    IF i = 0 THEN Num(0)
    ELSE LET rest == SumPredictions(model_predictions, i - 1)
         IN  IF ModelOrder[i] \in DOMAIN model_predictions
             THEN FAdd(rest, model_predictions[ModelOrder[i]]) ELSE rest

\* (mutant) the sample variance: the squared deviations are divided by n - 1
VarianceSample(model_predictions) ==
    LET n == Num(Cardinality(DOMAIN model_predictions))
        mean == FDiv(SumPredictions(model_predictions, 3), n)
        sq == [m \in DOMAIN model_predictions |->
                  FMul(FSub(model_predictions[m], mean),
                       FSub(model_predictions[m], mean))]
    IN  FDiv(SumPredictions(sq, 3), FSub(n, Num(1)))

\* np.std(predictions) ** 2: the mean of the squared deviations from the mean
Variance(model_predictions) ==
    LET n == Num(Cardinality(DOMAIN model_predictions))
        mean == FDiv(SumPredictions(model_predictions, 3), n)
        sq == [m \in DOMAIN model_predictions |->
                  FMul(FSub(model_predictions[m], mean),
                       FSub(model_predictions[m], mean))]
    IN  FDiv(SumPredictions(sq, 3), n)

\* np.std(predictions) rounded to hundredths: the integer nearest to
\* 100 * sqrt(variance), which is floor((floor(sqrt(40000 * variance)) + 1) / 2)
StdHundredths(model_predictions) ==
    LET v == Variance(model_predictions)
    IN  (ISqrt((40000 * v[1]) \div v[2]) + 1) \div 2

\* confidence = 85.0 unless more than one model contributed
SingleModelConfidence == 85

\* round(confidence, 2) in hundredths, confidence being
\* max(0, min(100, 100 - std_dev)); rounding to hundredths commutes with
\* 100 - x and with the clamp at 0 and 100
ConfidenceHundredths(model_predictions) ==
    IF Cardinality(DOMAIN model_predictions) > 1
    THEN Max(0, Min(10000, 10000 - StdHundredths(model_predictions)))
    ELSE 100 * SingleModelConfidence

\* (mutant) the boundary values fall in the lower bracket
get_risk_level_le(risk_score) ==
    IF ~FLt(Num(30), risk_score) THEN "low"
    ELSE IF ~FLt(Num(50), risk_score) THEN "medium"
    ELSE IF ~FLt(Num(70), risk_score) THEN "high"
    ELSE "very-high"

get_risk_level(risk_score) ==
    IF FLt(risk_score, Num(30)) THEN "low"
    ELSE IF FLt(risk_score, Num(50)) THEN "medium"
    ELSE IF FLt(risk_score, Num(70)) THEN "high"
    ELSE "very-high"

\* what predict computes from preprocess_input to the PredictionResponse
\* (lines 365-420) when no model call raises
Scoring(env, request) ==
    LET model_predictions == ModelPredictions(env.models, request.outputs)
        ensemble_pred == EnsemblePred(model_predictions, env.ensemble_weights)
        risk_score == FMul(ensemble_pred, Num(100))
    IN  [scored |-> ModelsScored(env.models, request.outputs),
         scaled |-> env.preprocessor,
         ensemble_pred |-> ensemble_pred,
         risk_score_raw |-> risk_score,
         risk_score |-> Norm(<<Round2(risk_score), 100>>),
         risk_level |-> get_risk_level(risk_score),
         confidence |-> Norm(<<ConfidenceHundredths(model_predictions), 100>>),
         model_predictions |-> model_predictions,
         ensemble_prediction |-> Norm(<<Round2(risk_score), 100>>)]

\* no request has been served
NoServe ==
    [env |-> [models |-> {}, ensemble_weights |-> DefaultWeights,
              preprocessor |-> FALSE],
     request |-> [body |-> <<>>, outputs |-> <<>>, user_id |-> NoHeader,
                  db_fails |-> FALSE],
     result |-> [status |-> 0]]

\* no predict coroutine is in flight
NoLoop == [running |-> 0, tasks |-> <<>>]

\* ------------------------------------------------------------------ actions
\* Every handler is one step: the endpoints are coroutines without an await
\* between their first and last statement.  Of predict's scoring (lines
\* 365-420) the history store sees only whether it raised.
SamplePatient == [age |-> 63, sex |-> 1, trestbps |-> 145, chol |-> 233, thalach |-> 150]

NoFeat == [patient |-> SamplePatient, served |-> <<>>, trained |-> <<>>]

Init ==
    /\ prediction_history = <<>>
    /\ db = <<>>
    /\ now = ClockStart
    /\ feat = NoFeat
    /\ srv = NoServe
    /\ call = [op |-> "startup"]
    /\ resp = [op |-> "startup"]
    /\ nreq = 0
    /\ subjectOf = <<>>
    /\ delivered = {}
    /\ inserted = [u \in Users |-> <<>>]
    /\ wasReset = FALSE
    /\ loop = NoLoop

\* POST /predict with header value user_id, dt milliseconds after the
\* previous request
Predict(user_id, dt, fault) ==
    LET t == now + dt
        r == nreq + 1
        record == NewRecord(t, r)
    IN  /\ fault = "sqlite" => Truthy(user_id)
        /\ now' = t
        /\ nreq' = r
        /\ prediction_history' =
               IF ReachesCache(user_id, fault)
               THEN CachePut(prediction_history, user_id, record)
               ELSE prediction_history
        /\ db' = IF ReachesDb(user_id, fault)
                 THEN save_prediction_to_db(db, user_id, record) ELSE db
        /\ call' = [op |-> "predict", user_id |-> user_id, fault |-> fault]
        /\ resp' = IF PredictStatus(fault) = 200
                   THEN [op |-> "predict", status |-> 200, timestamp |-> t, req |-> r]
                   ELSE [op |-> "predict", status |-> 500, detail |-> fault, req |-> r]
        /\ subjectOf' = IF ReachesCache(user_id, fault)
                        THEN (r :> user_id) @@ subjectOf ELSE subjectOf
        /\ delivered' = IF Truthy(user_id) /\ PredictStatus(fault) = 200
                        THEN delivered \cup {r} ELSE delivered
        /\ inserted' = IF ReachesCache(user_id, fault)
                       THEN [inserted EXCEPT ![user_id] = Append(@, r)] ELSE inserted
        /\ UNCHANGED <<feat, wasReset, loop>>

\* GET /history/{user_id}?limit=...
History(user_id, limit) ==
    /\ call' = [op |-> "history", user_id |-> user_id, limit |-> limit]
    /\ resp' = get_prediction_history(prediction_history, db, user_id, limit)
    /\ prediction_history' = DictAfterGet(prediction_history, user_id)
    /\ UNCHANGED <<db, now, feat, srv, loop,
                   nreq, subjectOf, delivered, inserted, wasReset>>

\* init_db(reset=True): the database file is removed and the table created
\* again; prediction_history is not touched
ResetDb ==
    /\ db' = <<>>
    /\ call' = [op |-> "init_db"]
    /\ resp' = [op |-> "init_db"]
    /\ delivered' = {}
    /\ wasReset' = TRUE
    /\ UNCHANGED <<prediction_history, now, feat, srv, loop,
                   nreq, subjectOf, inserted>>

\* the process is restarted: module state is rebuilt (prediction_history = {}),
\* lifespan calls init_db() which keeps the existing table
Restart ==
    /\ prediction_history' = <<>>
    /\ call' = [op |-> "startup"]
    /\ resp' = [op |-> "startup"]
    /\ inserted' = [u \in Users |-> <<>>]
    /\ UNCHANGED <<db, now, feat, srv, loop,
                   nreq, subjectOf, delivered, wasReset>>

Next ==
    \/ \E h \in Headers, dt \in Steps, f \in Faults :
          nreq < MaxReq /\ Predict(h, dt, f) /\ UNCHANGED srv
    \/ \E u \in Users, n \in Limits : History(u, n)
    \/ ResetDb
    \/ Restart

Spec == Init /\ [][Next]_vars

\* ---- a long run of successful predictions of one subject
NextLong ==
    nreq < MaxLong /\ Predict("A", 1, "none") /\ UNCHANGED srv

SpecLong == Init /\ [][NextLong]_vars

\* ---- the two feature engineerings applied to one patient
InitFeat ==
    /\ feat \in {[patient |-> p, served |-> <<>>, trained |-> <<>>] : p \in Patients}
    /\ srv = NoServe
    /\ prediction_history = <<>>
    /\ db = <<>>
    /\ now = ClockStart
    /\ call = [op |-> "startup"]
    /\ resp = [op |-> "startup"]
    /\ nreq = 0
    /\ subjectOf = <<>>
    /\ delivered = {}
    /\ inserted = [u \in Users |-> <<>>]
    /\ wasReset = FALSE
    /\ loop = NoLoop

\* serving: preprocess_input(patient) up to the scaler
Preprocess ==
    /\ feat.served = <<>>
    /\ feat' = [feat EXCEPT !.served = preprocess_input(feat.patient)]
    /\ UNCHANGED <<histVars, srv>>

\* training: engineer_features on a frame holding the patient's row
Engineer ==
    /\ feat.trained = <<>>
    /\ feat' = [feat EXCEPT !.trained = engineer_features(feat.patient)]
    /\ UNCHANGED <<histVars, srv>>

NextFeat == Preprocess \/ Engineer

SpecFeat == InitFeat /\ [][NextFeat]_vars

\* ---- one /predict request against each set of loaded artifacts
\* probabilities a model returns: whole tenths when several models are
\* averaged, and values next to the risk thresholds when one model answers
CoarseProbas == {Num(0), <<3, 10>>, <<7, 10>>, Num(1)}

FineProbas == {Norm(<<29996, 100000>>), <<1, 2>>, Norm(<<69999, 100000>>)}

\* what a loaded model does with the features: a probability, or it raises
Outcomes(models) ==
    {[raises |-> FALSE, proba |-> p] :
        p \in IF Cardinality(models) = 1
              THEN CoarseProbas \cup FineProbas ELSE CoarseProbas}
    \cup {[raises |-> TRUE, proba |-> Num(0)]}

\* metrics['ensemble']['weights'] of training_metrics.json, or the fallback
WeightConfigs ==
    { DefaultWeights,
      [xgboost |-> Num(0), random_forest |-> Num(0), neural_network |-> Num(0)],
      [xgboost |-> <<1, 2>>],
      [xgboost |-> Num(0), random_forest |-> <<35, 100>>] }

\* the body of test_history_integration.sample_patient (oldpeak in whole units)
SampleBody ==
    [age |-> 63, sex |-> 1, cp |-> 3, trestbps |-> 145, chol |-> 233,
     fbs |-> 1, restecg |-> 0, thalach |-> 150, exang |-> 0, oldpeak |-> 2,
     slope |-> 0, ca |-> 0, thal |-> 1]

\* request bodies: valid, a field above its bound, one below, one missing
RequestBodies ==
    { SampleBody,
      [SampleBody EXCEPT !.age = 121],
      [SampleBody EXCEPT !.thalach = -1],
      [f \in DOMAIN SampleBody \ {"thal"} |-> SampleBody[f]] }

\* the record of an earlier successful predict of subject A
EarlierRecord == NewRecord(ClockStart, 1)

InitServe ==
    /\ \E models \in SUBSET ModelNames, weights \in WeightConfigs,
          pre \in BOOLEAN, body \in RequestBodies,
          user_id \in {"A", NoHeader}, db_fails \in BOOLEAN :
          /\ db_fails => Truthy(user_id)
          /\ \E outputs \in [models -> Outcomes(models)] :
                srv = [env |-> [models |-> models, ensemble_weights |-> weights,
                                preprocessor |-> pre],
                       request |-> [body |-> body, outputs |-> outputs,
                                    user_id |-> user_id, db_fails |-> db_fails],
                       result |-> [status |-> 0]]
    /\ feat = NoFeat
    /\ now = ClockStart
    /\ wasReset = FALSE
    /\ loop = NoLoop
    /\ \/ /\ prediction_history = <<>>
          /\ db = <<>>
          /\ call = [op |-> "startup"]
          /\ resp = [op |-> "startup"]
          /\ nreq = 0
          /\ subjectOf = <<>>
          /\ delivered = {}
          /\ inserted = [u \in Users |-> <<>>]
       \/ /\ prediction_history = CachePut(<<>>, "A", EarlierRecord)
          /\ db = save_prediction_to_db(<<>>, "A", EarlierRecord)
          /\ call = [op |-> "predict", user_id |-> "A", fault |-> "none"]
          /\ resp = [op |-> "predict", status |-> 200,
                     timestamp |-> ClockStart, req |-> 1]
          /\ nreq = 1
          /\ subjectOf = <<"A">>
          /\ delivered = {1}
          /\ inserted = [u \in Users |-> IF u = "A" THEN <<1>> ELSE <<>>]

\* the body does not parse into a PatientData: the framework answers 422
\* and predict is not called
RejectRequest ==
    /\ srv.result.status = 0
    /\ ~ValidPatientData(srv.request.body)
    /\ srv' = [srv EXCEPT !.result = [status |-> 422, scored |-> {}]]
    /\ UNCHANGED <<histVars, feat>>

\* the exception predict's try block ends with, if any
FaultOf(env, request) ==
    IF ScoringRaised(env.models, request.outputs) THEN "scoring"
    ELSE IF Truthy(request.user_id) /\ request.db_fails THEN "sqlite"
    ELSE "none"

\* POST /predict with a valid body: scoring, response, history
ServePredict ==
    /\ srv.result.status = 0
    /\ ValidPatientData(srv.request.body)
    /\ LET fault == FaultOf(srv.env, srv.request)
       IN  /\ Predict(srv.request.user_id, 1, fault)
           /\ srv' = [srv EXCEPT !.result =
                  IF fault = "scoring"
                  THEN [status |-> PredictStatus(fault),
                        scored |-> ModelsScored(srv.env.models, srv.request.outputs),
                        scaled |-> srv.env.preprocessor]
                  ELSE [status |-> PredictStatus(fault)]
                       @@ Scoring(srv.env, srv.request)]

NextServe == RejectRequest \/ ServePredict

SpecServe == InitServe /\ [][NextServe]_vars

\* ---- one /batch-predict request against each set of loaded artifacts
\* the request body: a list of k patients (k copies of the request's body)
BatchSizes == 0..MaxBatch

BatchBody(k) == [i \in 1..k |-> srv.request.body]

\* the body parses into a List[PatientData]
ValidBatch(patients) == \A i \in DOMAIN patients : ValidPatientData(patients[i])

\* an item of the list does not parse: 422, batch_predict is not called
RejectBatch(k) ==
    /\ srv.result.status = 0
    /\ ~ValidBatch(BatchBody(k))
    /\ srv' = [srv EXCEPT !.result = [status |-> 422, batch |-> k, scored |-> {}]]
    /\ call' = [op |-> "batch_predict"]
    /\ resp' = [op |-> "batch_predict", status |-> 422]
    /\ UNCHANGED <<prediction_history, db, now, feat, loop,
                   nreq, subjectOf, delivered, inserted, wasReset>>

\* POST /batch-predict with a valid list.  The loop calls predict(patient):
\* predict(patient, request) has no default for request, so the first call
\* raises TypeError before predict's body (and its try) is entered, and
\* batch_predict has no handler: the request ends 500.  An empty list skips
\* the loop and is answered with no predictions.
BatchPredict(k) ==
    /\ srv.result.status = 0
    /\ ValidBatch(BatchBody(k))
    /\ srv' = [srv EXCEPT !.result =
           IF k = 0
           THEN [status |-> 200, batch |-> k, scored |-> {},
                 predictions |-> <<>>, count |-> 0]
           ELSE [status |-> 500, batch |-> k, scored |-> {}]]
    /\ call' = [op |-> "batch_predict"]
    /\ resp' = [op |-> "batch_predict", status |-> IF k = 0 THEN 200 ELSE 500]
    /\ UNCHANGED <<prediction_history, db, now, feat, loop,
                   nreq, subjectOf, delivered, inserted, wasReset>>

NextBatch == \E k \in BatchSizes : RejectBatch(k) \/ BatchPredict(k)

SpecBatch == InitServe /\ [][NextBatch]_vars

\* ---- concurrent /predict requests on the event loop
\* predictions of subject A served before the concurrent requests arrive
WarmSizes == {0, CacheMax - 1}

\* the cache and the log after n successful predictions of A, one per
\* millisecond
WarmCache(n) ==
    IF n = 0 THEN <<>>
    ELSE [u \in {"A"} |->
            [i \in 1..n |-> NewRecord(ClockStart + n + 1 - i, n + 1 - i)]]

WarmDb(n) ==
    [i \in 1..n |-> [rowid |-> i, user_id |-> "A",
                     created_at |-> ClockStart + i, req |-> i]]

\* the statements of predict's history block, in order
\*   "insert"   history = prediction_history.setdefault(user_id, [])
\*              history.insert(0, record)
\*   "truncate" if len(history) > 500: del history[500:]
\*   "save"     save_prediction_to_db(user_id, record)
\*   "return"   return response
NextPc(pc) ==
    CASE pc = "queued" -> "insert" [] pc = "insert" -> "truncate"
      [] pc = "truncate" -> "save" [] pc = "save" -> "return"
      [] pc = "return" -> "done"

\* (mutant) the durable write is awaited
AwaitSave == {"save"}

\* the statements before which the coroutine awaits and gives the event loop
\* to another request: predict has no await
AwaitPoints == {}

\* the coroutine the loop runs after task i has executed a statement
RunningAfter(i, pc) ==
    IF NextPc(pc) \in AwaitPoints \cup {"done"} THEN 0 ELSE i

\* task i may execute its statement pc
Runnable(i, pc) ==
    /\ i \in DOMAIN loop.tasks
    /\ loop.tasks[i].pc = pc
    /\ loop.running \in {0, i}

Advance(i, pc) ==
    [loop EXCEPT !.running = RunningAfter(i, pc), !.tasks[i].pc = NextPc(pc)]

InitConc ==
    /\ \E n \in WarmSizes, users \in [1..MaxTasks -> Users] :
          /\ prediction_history = WarmCache(n)
          /\ db = WarmDb(n)
          /\ now = ClockStart + n
          /\ nreq = n
          /\ subjectOf = [r \in 1..n |-> "A"]
          /\ delivered = 1..n
          /\ inserted = [u \in Users |-> IF u = "A" THEN [i \in 1..n |-> i] ELSE <<>>]
          /\ loop = [running |-> 0,
                     tasks |-> [i \in 1..MaxTasks |->
                                   [user_id |-> users[i], pc |-> "queued",
                                    record |-> NewRecord(0, 0)]]]
    /\ call = [op |-> "startup"]
    /\ resp = [op |-> "startup"]
    /\ feat = NoFeat
    /\ srv = NoServe
    /\ wasReset = FALSE

\* the loop starts the coroutine of a queued request: scoring, the response
\* and the record (lines 363-444)
TaskStart(i, dt) ==
    /\ loop.running = 0
    /\ i \in DOMAIN loop.tasks
    /\ loop.tasks[i].pc = "queued"
    /\ now' = now + dt
    /\ nreq' = nreq + 1
    /\ loop' = [loop EXCEPT !.running = RunningAfter(i, "queued"),
                            !.tasks[i].pc = NextPc("queued"),
                            !.tasks[i].record = NewRecord(now + dt, nreq + 1)]
    /\ UNCHANGED <<prediction_history, db, feat, srv, call, resp,
                   subjectOf, delivered, inserted, wasReset>>

\* history = prediction_history.setdefault(user_id, []); history.insert(0, record)
TaskInsert(i) ==
    /\ Runnable(i, "insert")
    /\ LET user_id == loop.tasks[i].user_id
           record == loop.tasks[i].record
       IN  /\ prediction_history' =
                  [k \in DOMAIN prediction_history \cup {user_id} |->
                      IF k = user_id
                      THEN InsertHead(CacheGet(prediction_history, user_id), record)
                      ELSE prediction_history[k]]
           /\ subjectOf' = (record.req :> user_id) @@ subjectOf
           /\ inserted' = [inserted EXCEPT ![user_id] = Append(@, record.req)]
    /\ loop' = Advance(i, "insert")
    /\ UNCHANGED <<db, now, feat, srv, call, resp, nreq, delivered, wasReset>>

\* if len(history) > 500: del history[500:]
TaskTruncate(i) ==
    /\ Runnable(i, "truncate")
    /\ prediction_history' =
           [prediction_history EXCEPT ![loop.tasks[i].user_id] = TruncateHistory(@)]
    /\ loop' = Advance(i, "truncate")
    /\ UNCHANGED <<db, now, feat, srv, call, resp,
                   nreq, subjectOf, delivered, inserted, wasReset>>

\* save_prediction_to_db(user_id, record)
TaskSave(i) ==
    /\ Runnable(i, "save")
    /\ db' = save_prediction_to_db(db, loop.tasks[i].user_id, loop.tasks[i].record)
    /\ loop' = Advance(i, "save")
    /\ UNCHANGED <<prediction_history, now, feat, srv, call, resp,
                   nreq, subjectOf, delivered, inserted, wasReset>>

\* return response
TaskReturn(i) ==
    /\ Runnable(i, "return")
    /\ call' = [op |-> "predict", user_id |-> loop.tasks[i].user_id, fault |-> "none"]
    /\ resp' = [op |-> "predict", status |-> 200,
                timestamp |-> loop.tasks[i].record.created_at,
                req |-> loop.tasks[i].record.req]
    /\ delivered' = delivered \cup {loop.tasks[i].record.req}
    /\ loop' = Advance(i, "return")
    /\ UNCHANGED <<prediction_history, db, now, feat, srv,
                   nreq, subjectOf, inserted, wasReset>>

NextConc ==
    \E i \in 1..MaxTasks :
        \/ \E dt \in Steps : TaskStart(i, dt)
        \/ TaskInsert(i)
        \/ TaskTruncate(i)
        \/ TaskSave(i)
        \/ TaskReturn(i)

SpecConc == InitConc /\ [][NextConc]_vars

\* ---- the read-only endpoints /health and /model-info
\* (mutant) the status looks at the three models only
health_check_models(env) ==
    LET models_loaded ==
            [xgboost |-> "xgboost" \in env.models,
             random_forest |-> "random_forest" \in env.models,
             neural_network |-> "neural_network" \in env.models,
             preprocessor |-> env.preprocessor]
    IN  [op |-> "health",
         status |-> IF \A k \in ModelNames : models_loaded[k]
                    THEN "healthy" ELSE "degraded",
         models_loaded |-> models_loaded]

\* GET /health; env.preprocessor is "preprocessor is not None"
health_check(env) ==
    LET models_loaded ==
            [xgboost |-> "xgboost" \in env.models,
             random_forest |-> "random_forest" \in env.models,
             neural_network |-> "neural_network" \in env.models,
             preprocessor |-> env.preprocessor]
    IN  [op |-> "health",
         status |-> IF \A k \in DOMAIN models_loaded : models_loaded[k]
                    THEN "healthy" ELSE "degraded",
         models_loaded |-> models_loaded]

\* GET /model-info: the loaded models and the weights
model_info(env) ==
    [op |-> "model_info", models |-> env.models,
     ensemble_weights |-> env.ensemble_weights]

Health ==
    /\ call' = [op |-> "health"]
    /\ resp' = health_check(srv.env)
    /\ UNCHANGED <<prediction_history, db, now, feat, srv, loop,
                   nreq, subjectOf, delivered, inserted, wasReset>>

ModelInfo ==
    /\ call' = [op |-> "model_info"]
    /\ resp' = model_info(srv.env)
    /\ UNCHANGED <<prediction_history, db, now, feat, srv, loop,
                   nreq, subjectOf, delivered, inserted, wasReset>>

\* the service has started with some of the artifacts
InitInfo ==
    /\ \E models \in SUBSET ModelNames, weights \in WeightConfigs, pre \in BOOLEAN :
          srv = [NoServe EXCEPT !.env = [models |-> models,
                                         ensemble_weights |-> weights,
                                         preprocessor |-> pre]]
    /\ prediction_history = <<>>
    /\ db = <<>>
    /\ now = ClockStart
    /\ feat = NoFeat
    /\ loop = NoLoop
    /\ call = [op |-> "startup"]
    /\ resp = [op |-> "startup"]
    /\ nreq = 0
    /\ subjectOf = <<>>
    /\ delivered = {}
    /\ inserted = [u \in Users |-> <<>>]
    /\ wasReset = FALSE

NextInfo == Health \/ ModelInfo

SpecInfo == InitInfo /\ [][NextInfo]_vars

\* ---- every endpoint, on a cache of subject A one short of its limit
InitOps ==
    /\ prediction_history = WarmCache(CacheMax - 1)
    /\ db = WarmDb(CacheMax - 1)
    /\ now = ClockStart + CacheMax - 1
    /\ nreq = CacheMax - 1
    /\ subjectOf = [r \in 1..(CacheMax - 1) |-> "A"]
    /\ delivered = 1..(CacheMax - 1)
    /\ inserted = [u \in Users |->
                      IF u = "A" THEN [i \in 1..(CacheMax - 1) |-> i] ELSE <<>>]
    /\ call = [op |-> "startup"]
    /\ resp = [op |-> "startup"]
    /\ feat = NoFeat
    /\ srv = NoServe
    /\ loop = NoLoop
    /\ wasReset = FALSE

\* the header values and limits used there: a subject with a full cache, one
\* without records, no header; no limit and a limit of one
OpsHeaders == {"A", "B", NoHeader}

OpsLimits == {-1, 1}

NextOps ==
    \/ \E h \in OpsHeaders, f \in Faults :
          nreq < CacheMax - 1 + MaxOps /\ Predict(h, 1, f) /\ UNCHANGED srv
    \/ \E u \in Users, n \in OpsLimits : History(u, n)
    \/ ResetDb
    \/ Restart
    \/ Health
    \/ ModelInfo

SpecOps == InitOps /\ [][NextOps]_vars

\* ------------------------------------------------------------------ claims
\* the calls (req numbers) whose records a list of records holds
Reqs(records) == {records[i].req : i \in 1..Len(records)}

\* the calls whose rows the log holds for a subject
DbReqs(user_id) == {db[i].req : i \in {j \in 1..Len(db) : db[j].user_id = user_id}}

\* C1: history(subject, limit) returns every record that is in the cache or
\* in the durable log for that subject when limit is at least their number,
\* also after a restart has emptied the cache.
C1_HistoryReturnsCacheAndLog ==
    resp.op = "history" =>
        LET want == Reqs(CacheGet(prediction_history, resp.user_id))
                        \cup DbReqs(resp.user_id)
        IN  resp.limit >= Cardinality(want) => want \subseteq Reqs(resp.predictions)

\* C2: after init_db(reset=True), history(subject, limit) with limit >= n
\* gives count = n and n predictions, n being the number of predictions
\* made with that subject since the reset.
C2_HistoryCountsSinceReset ==
    (resp.op = "history" /\ wasReset) =>
        LET n == Cardinality({r \in delivered : subjectOf[r] = resp.user_id})
        IN  resp.limit >= n => resp.count = n /\ Len(resp.predictions) = n

\* C3: when the durable write fails during a predict that carries a subject,
\* the subject's cache still gets the new record and the caller still gets
\* the successful response.
C3_WriteFailureStillAnswers ==
    (call.op = "predict" /\ Truthy(call.user_id) /\ call.fault = "sqlite") =>
        /\ resp.req \in Reqs(CacheGet(prediction_history, call.user_id))
        /\ resp.status = 200

\* C4: every prediction answered successfully to a caller who gave a subject
\* has its row in the durable log, from the moment of the response until the
\* next reset.
C4_DeliveredIsDurable ==
    \A r \in delivered :
        \E i \in 1..Len(db) : db[i].req = r /\ db[i].user_id = subjectOf[r]

\* a successful response with a subject has just been given, and an earlier
\* one is still in the log after a restart emptied the cache
C4_Witness ==
    /\ call.op = "predict" /\ Truthy(call.user_id) /\ resp.status = 200
    /\ resp.req \in delivered
    /\ Cardinality(delivered) >= 2
    /\ \E r \in delivered : r \notin Reqs(CacheGet(prediction_history, subjectOf[r]))

\* the reqs of a list of records, in the list's order
ReqSeq(records) == [i \in 1..Len(records) |-> records[i].req]

\* the newest n elements of a list kept oldest first, newest first
Newest(s, n) == [i \in 1..Min(n, Len(s)) |-> s[Len(s) + 1 - i]]

\* C5: the cache of each subject holds at most 500 records, and they are the
\* most recently inserted ones, newest first; after N successful predictions
\* of a subject the cache holds the min(N, 500) newest and the log all N.
C5_CacheBoundedNewest ==
    \A u \in Users :
        /\ Len(CacheGet(prediction_history, u)) <= CacheMax
        /\ ReqSeq(CacheGet(prediction_history, u)) = Newest(inserted[u], CacheMax)
        /\ {r \in delivered : subjectOf[r] = u} = DbReqs(u)
        /\ Cardinality(DbReqs(u)) = Len(SelectSeq(db, LAMBDA row : row.user_id = u))

\* 501 and more successful predictions of one subject: the cache is full and
\* has dropped the oldest, the log has them all
C5_Witness ==
    /\ Len(inserted["A"]) > CacheMax
    /\ Len(CacheGet(prediction_history, "A")) = CacheMax
    /\ Len(db) = Len(inserted["A"])
    /\ prediction_history["A"][1].req = nreq
    /\ 1 \notin Reqs(prediction_history["A"])

\* C6: history returns the records of a subject most recent first: of two
\* returned records the one recorded later comes first.
C6_HistoryNewestFirst ==
    resp.op = "history" =>
        \A i, j \in 1..Len(resp.predictions) :
            i < j => resp.predictions[i].req > resp.predictions[j].req

\* a history response with two records or more
C6_Witness ==
    /\ resp.op = "history"
    /\ Len(resp.predictions) >= 2
    /\ resp.predictions[1].req > resp.predictions[2].req

\* C7: no record created by a predict call carrying subject A is contained in
\* the result of history(B, limit) for another subject B.
C7_HistoryIsolated ==
    resp.op = "history" =>
        \A i \in 1..Len(resp.predictions) :
            subjectOf[resp.predictions[i].req] = resp.user_id

\* a non-empty history response while another subject has records of its own
\* in the cache and in the log
C7_Witness ==
    /\ resp.op = "history"
    /\ resp.count >= 1
    /\ \E u \in Users \ {resp.user_id} :
           CacheGet(prediction_history, u) # <<>> /\ DbReqs(u) # {}

\* no prediction is recorded for the subject, in the cache or in the log
NoRecord(user_id) == user_id \notin DOMAIN prediction_history /\ DbReqs(user_id) = {}

\* C8: history for a subject with no recorded prediction answers count 0 and
\* an empty sequence, echoes the subject id, and changes neither the cache
\* nor the log (no cache entry is created for the subject).
C8_UnknownSubjectEmpty ==
    [][(call'.op = "history" /\ NoRecord(call'.user_id)) =>
          /\ resp'.op = "history"
          /\ resp'.count = 0
          /\ resp'.predictions = <<>>
          /\ resp'.user_id = call'.user_id
          /\ prediction_history' = prediction_history
          /\ db' = db]_vars

\* history has answered for a subject without records while another subject
\* has some
C8_Witness ==
    /\ call.op = "history"
    /\ NoRecord(call.user_id)
    /\ resp.count = 0
    /\ prediction_history # <<>>
    /\ db # <<>>

\* the number of entries of a list that belong to call r
Copies(records, r) == Cardinality({i \in 1..Len(records) : records[i].req = r})

\* C9: history never returns the same prediction twice; a prediction held in
\* the cache and in the log appears once, as the cache copy (when limit does
\* not cut it off); for limit >= 0 the result has at most limit entries, and
\* count is the number of entries.
C9_HistoryNoDuplicates ==
    resp.op = "history" =>
        LET u == resp.user_id
            mem == CacheGet(prediction_history, u)
            known == Reqs(mem) \cup DbReqs(u)
        IN  /\ \A r \in known : Copies(resp.predictions, r) <= 1
            /\ \A r \in Reqs(mem) \cap DbReqs(u) :
                  /\ \A i \in 1..Len(resp.predictions) :
                        resp.predictions[i].req = r =>
                            \E k \in 1..Len(mem) : mem[k] = resp.predictions[i]
                  /\ resp.limit >= Cardinality(known) =>
                        Copies(resp.predictions, r) = 1
            /\ resp.limit >= 0 => Len(resp.predictions) <= resp.limit
            /\ resp.count = Len(resp.predictions)

\* history has returned a prediction that is in the cache and in the log,
\* and a limit has cut a result short
C9_Witness ==
    /\ resp.op = "history"
    /\ \E r \in Reqs(CacheGet(prediction_history, resp.user_id))
                  \cap DbReqs(resp.user_id) :
           Copies(resp.predictions, r) = 1
    /\ resp.limit >= 0
    /\ resp.count = resp.limit
    /\ Len(CacheGet(prediction_history, resp.user_id)) > resp.limit

\* the two feature vectors agree column by column
FeaturesEqual(a, b) ==
    Len(a) = Len(b) /\ \A i \in 1..Len(a) : FloatEq(a[i], b[i])

\* C10: for every in-range patient the six engineered features computed at
\* serving time by preprocess_input equal, value for value and in the same
\* column order, those computed at training time by engineer_features.
C10_ServingMatchesTraining ==
    (feat.served # <<>> /\ feat.trained # <<>>) =>
        FeaturesEqual(feat.served, feat.trained)

\* C11: the serving-time hr_reserve is max_heart_rate / (220 - age) clamped
\* to [0, 1] (0 when 220 - age <= 0): for every in-range patient it lies in
\* [0, 1] and no division by zero happens.
C11_ServingHrReserveClamped ==
    feat.served # <<>> =>
        LET hr_reserve == feat.served[4]
        IN  /\ ~IsNaN(hr_reserve)
            /\ 0 <= hr_reserve[1]
            /\ hr_reserve[1] <= hr_reserve[2]

\* the weight the configuration gives model m: its entry, or 0.33 without one
ConfiguredWeight(m) ==
    IF m \in DOMAIN srv.env.ensemble_weights
    THEN srv.env.ensemble_weights[m] ELSE <<33, 100>>

\* the sum over the loaded models of f
RECURSIVE SumOverLoaded(_, _)
SumOverLoaded(f(_), S) ==
    IF S = {} THEN Num(0)
    ELSE LET m == CHOOSE x \in S : TRUE
         IN  FAdd(f(m), SumOverLoaded(f, S \ {m}))

LoadedScoreTimesWeight(m) == FMul(srv.request.outputs[m].proba, ConfiguredWeight(m))

LoadedWeightSum == SumOverLoaded(ConfiguredWeight, srv.env.models)

\* C12: for every non-empty set S of loaded models and any scores, the
\* ensemble probability of a served prediction is the sum over S of
\* score * weight divided by the sum over S of the weights (0.33 for a model
\* without an entry); models that are not loaded are in neither sum.  The
\* quotient is defined when the weight sum is positive; both sides are
\* fractions in lowest terms.
C12_EnsembleIsRenormalizedAverage ==
    (srv.result.status = 200 /\ srv.env.models # {}
        /\ FLt(Num(0), LoadedWeightSum)) =>
        srv.result.ensemble_pred =
            FDiv(SumOverLoaded(LoadedScoreTimesWeight, srv.env.models),
                 LoadedWeightSum)

\* two of the three models loaded, one of them without a configured weight,
\* and their scores differ
C12_Witness ==
    /\ srv.result.status = 200
    /\ srv.env.models = {"xgboost", "neural_network"}
    /\ "neural_network" \notin DOMAIN srv.env.ensemble_weights
    /\ srv.request.outputs["xgboost"].proba = <<3, 10>>
    /\ srv.request.outputs["neural_network"].proba = <<7, 10>>
    /\ srv.result.ensemble_pred = <<381, 830>>

\* C13: when the weights of the contributing models do not sum to more than
\* 0, the ensemble probability is the neutral 0.5 and the risk score 50, as
\* when no model contributed.
C13_ZeroWeightSumIsNeutral ==
    (srv.result.status = 200 /\ ~FLt(Num(0), LoadedWeightSum)) =>
        /\ srv.result.ensemble_pred = <<1, 2>>
        /\ srv.result.risk_score = Num(50)

\* the confidence a prediction of exactly one model is reported with
OrdinaryConfidence == Num(SingleModelConfidence)

\* C14: with no model loaded predict answers with risk score 50.0, and the
\* response differs from an ordinary prediction by a marker of unavailable
\* confidence: it does not carry the confidence a single-model prediction
\* gets (PredictionResponse has no other field to mark it with).
C14_NoModelIsMarked ==
    (srv.result.status = 200 /\ srv.env.models = {}) =>
        /\ srv.result.risk_score = Num(50)
        /\ srv.result.confidence # OrdinaryConfidence

\* the percentage score of a loaded model, and its square
LoadedScore(m) == FMul(srv.request.outputs[m].proba, Num(100))

LoadedScoreSquared(m) == FMul(LoadedScore(m), LoadedScore(m))

\* the population variance of the percentage scores of the loaded models:
\* (n * sum of squares - square of the sum) / n^2
ScoreVariance ==
    LET n == Num(Cardinality(srv.env.models))
        sum == SumOverLoaded(LoadedScore, srv.env.models)
    IN  FDiv(FSub(FMul(n, SumOverLoaded(LoadedScoreSquared, srv.env.models)),
                  FMul(sum, sum)),
             FMul(n, n))

\* the scores of the loaded models are all the same
ScoresAgree ==
    \A m1, m2 \in srv.env.models :
        srv.request.outputs[m1].proba = srv.request.outputs[m2].proba

\* the confidence of the response, in hundredths
ConfidenceReported == (100 * srv.result.confidence[1]) \div srv.result.confidence[2]

\* the parts of C15 that do not depend on how 100 - std is reported
ConfidenceFrame ==
    /\ Cardinality(srv.env.models) = 1 => srv.result.confidence = Num(85)
    /\ 0 <= ConfidenceReported /\ ConfidenceReported <= 10000
    /\ (Cardinality(srv.env.models) >= 2 /\ ScoresAgree) =>
          srv.result.confidence = Num(100)

\* C15 as stated: with two or more contributing models the returned
\* confidence is 100 minus the population standard deviation of the scores
\* (which is at most 50, so the clamp to [0,100] leaves it alone):
\* (100 - confidence)^2 is the variance.
C15_ConfidenceIsHundredMinusStd ==
    srv.result.status = 200 =>
        /\ ConfidenceFrame
        /\ Cardinality(srv.env.models) >= 2 =>
              LET k == 10000 - ConfidenceReported
              IN  k * k * ScoreVariance[2] = 10000 * ScoreVariance[1]

\* C15 (amended): the confidence returned is 85 when exactly one model
\* contributed; with two or more it is 100 minus the population standard
\* deviation of the percentage scores, clamped to [0,100] and rounded to two
\* decimals; it always lies in [0,100] and is 100 when all contributing
\* models agree.  k/100 is the hundredth nearest to the standard deviation:
\* (k - 1/2)^2 <= 10000 * variance < (k + 1/2)^2.
C15_ConfidenceIsRoundedHundredMinusStd ==
    srv.result.status = 200 =>
        /\ ConfidenceFrame
        /\ Cardinality(srv.env.models) >= 2 =>
              LET k == 10000 - ConfidenceReported
                  v == ScoreVariance
              IN  /\ k = 0 \/ (2 * k - 1) * (2 * k - 1) * v[2] <= 40000 * v[1]
                  /\ 40000 * v[1] < (2 * k + 1) * (2 * k + 1) * v[2]

\* three models that disagree: scores 0, 70 and 100, standard deviation
\* 41.8994..., confidence 58.1
C15_Witness ==
    /\ srv.result.status = 200
    /\ srv.env.models = ModelNames
    /\ srv.request.outputs["xgboost"].proba = Num(0)
    /\ srv.request.outputs["random_forest"].proba = <<7, 10>>
    /\ srv.request.outputs["neural_network"].proba = Num(1)
    /\ srv.result.confidence = <<581, 10>>

\* scores of [0, 100] in steps of a half, and the values next to the
\* thresholds that the served requests produce
ScoreGrid == {<<h, 2>> : h \in 0..200}

\* the level the intervals of C16 give a score
LevelOfInterval(score) ==
    CHOOSE level \in {"low", "medium", "high", "very-high"} :
        \/ level = "low" /\ FLt(score, Num(30))
        \/ level = "medium" /\ ~FLt(score, Num(30)) /\ FLt(score, Num(50))
        \/ level = "high" /\ ~FLt(score, Num(50)) /\ FLt(score, Num(70))
        \/ level = "very-high" /\ ~FLt(score, Num(70))

LevelRank(level) ==
    CASE level = "low" -> 0 [] level = "medium" -> 1
      [] level = "high" -> 2 [] level = "very-high" -> 3

\* C16: get_risk_level gives every score of [0,100] exactly one of four
\* levels by contiguous intervals: below 30 low, [30,50) medium, [50,70)
\* high, 70 and above very-high; 30, 50 and 70 are in the upper bracket and
\* the level never decreases as the score grows.
C16_RiskLevelIntervals ==
    srv.result.status = 200 =>
        LET score == srv.result.risk_score_raw
        IN  /\ srv.result.risk_level = get_risk_level(score)
            /\ \A s \in ScoreGrid \cup {score} :
                  /\ get_risk_level(s) = LevelOfInterval(s)
                  /\ \A t \in {FAdd(s, <<1, 2>>), score} :
                        /\ ~FLt(t, s) =>
                              LevelRank(get_risk_level(s)) <= LevelRank(get_risk_level(t))
                        /\ ~FLt(s, t) =>
                              LevelRank(get_risk_level(t)) <= LevelRank(get_risk_level(s))
            /\ get_risk_level(Num(30)) = "medium"
            /\ get_risk_level(Num(50)) = "high"
            /\ get_risk_level(Num(70)) = "very-high"

\* a prediction whose score is exactly the threshold 30
C16_Witness ==
    /\ srv.result.status = 200
    /\ srv.result.risk_score_raw = Num(30)
    /\ srv.result.risk_level = "medium"

\* C17: in every prediction response (and in the history entry, which copies
\* both fields from the response) the risk_level is the level the thresholds
\* give the risk_score carried in that response, also when rounding to two
\* decimals moved the score across a threshold.
C17_LevelMatchesReportedScore ==
    srv.result.status = 200 =>
        srv.result.risk_level = LevelOfInterval(srv.result.risk_score)

\* a field of the patient record is missing, or outside its declared bounds
MissingOrOutOfRange(body) ==
    \E f \in DOMAIN FieldBounds :
        \/ f \notin DOMAIN body
        \/ body[f] < FieldBounds[f][1]
        \/ body[f] > FieldBounds[f][2]

\* C18: a predict request with a missing or out-of-range field is answered
\* with a validation error before any model is scored, and the cache and
\* the log stay as they were, with or without a subject identifier.
C18_InvalidRequestRejected ==
    [][(srv.result.status = 0 /\ MissingOrOutOfRange(srv.request.body)) =>
          /\ srv'.result.status = 422
          /\ srv'.result.scored = {}
          /\ prediction_history' = prediction_history
          /\ db' = db]_vars

\* a rejected request that carried the identifier of a subject with history,
\* with models loaded
C18_Witness ==
    /\ srv.result.status = 422
    /\ srv.request.user_id = "A"
    /\ srv.env.models = ModelNames
    /\ srv.request.body.age = 121
    /\ "A" \in DOMAIN prediction_history
    /\ Len(db) = 1

\* the loaded models whose call raises for this request, and the others
LoadedFailing == {m \in srv.env.models : srv.request.outputs[m].raises}

LoadedHealthy == srv.env.models \ LoadedFailing

\* C19: when the call of one loaded model fails, the other loaded models are
\* still scored and the request succeeds: the failing model is absent from
\* the per-model scores and the ensemble is renormalized over the models
\* that produced a score.
C19_ModelFailureIsolated ==
    (srv.result.status \notin {0, 422} /\ LoadedFailing # {}
        /\ ~srv.request.db_fails) =>
        /\ srv.result.status = 200
        /\ srv.result.scored = srv.env.models
        /\ DOMAIN srv.result.model_predictions = LoadedHealthy
        /\ FLt(Num(0), SumOverLoaded(ConfiguredWeight, LoadedHealthy)) =>
              srv.result.ensemble_pred =
                  FDiv(SumOverLoaded(LoadedScoreTimesWeight, LoadedHealthy),
                       SumOverLoaded(ConfiguredWeight, LoadedHealthy))

\* C20: when the preprocessor was not loaded at startup, predict aborts
\* with a configuration error (a 5xx answer): no model is given
\* un-normalized features and no prediction computed from them is returned.
C20_MissingPreprocessorAborts ==
    (srv.result.status \notin {0, 422} /\ ~srv.env.preprocessor) =>
        /\ srv.result.status >= 500
        /\ srv.result.scored = {}

\* what predict answers for the request's patient when called on its own
\* without a subject identifier: the fields of the PredictionResponse
IndependentResponse ==
    LET r == Scoring(srv.env, [srv.request EXCEPT !.user_id = NoHeader])
    IN  [risk_score |-> r.risk_score, risk_level |-> r.risk_level,
         confidence |-> r.confidence, model_predictions |-> r.model_predictions,
         ensemble_prediction |-> r.ensemble_prediction]

\* C21: batch-predict over k valid patient records succeeds and returns k
\* responses, the i-th being what an independent predict without subject
\* identifier returns for the i-th record, and writes nothing to the cache
\* or the log.
C21_BatchIsIndependentPredicts ==
    [][(/\ srv.result.status = 0
        /\ srv'.result.status # 422
        /\ ~ScoringRaised(srv.env.models, srv.request.outputs)) =>
          /\ srv'.result.status = 200
          /\ srv'.result.count = srv'.result.batch
          /\ srv'.result.predictions =
                 [i \in 1..srv'.result.batch |-> IndependentResponse]
          /\ prediction_history' = prediction_history
          /\ db' = db]_vars

\* the step is a predict answered 200
SuccessfulPredictStep == nreq' = nreq + 1 /\ resp'.status = 200

\* C22: a successful predict with a non-empty subject identifier creates
\* exactly one history record, one entry at the head of that subject's cache
\* and one row at the end of the log, both for this prediction and under
\* this subject; without an identifier, or with an empty one, it creates
\* none and leaves the cache and the log as they were.
C22_OneRecordPerSubjectPredict ==
    [][SuccessfulPredictStep =>
          LET u == call'.user_id
              old == CacheGet(prediction_history, u)
              new == CacheGet(prediction_history', u)
          IN  IF u \notin {"", NoHeader}
              THEN /\ Len(new) = Min(Len(old) + 1, CacheMax)
                   /\ Head(new).req = nreq'
                   /\ Tail(new) = SubSeq(old, 1, Len(new) - 1)
                   /\ \A v \in DOMAIN prediction_history' \ {u} :
                         /\ v \in DOMAIN prediction_history
                         /\ prediction_history'[v] = prediction_history[v]
                   /\ Len(db') = Len(db) + 1
                   /\ SubSeq(db', 1, Len(db)) = db
                   /\ db'[Len(db')].user_id = u
                   /\ db'[Len(db')].req = nreq'
              ELSE /\ prediction_history' = prediction_history
                   /\ db' = db]_vars

\* a predict with an empty identifier has been answered 200 after one with
\* subject A: A's record is the only one in the cache and in the log
C22_Witness ==
    /\ nreq = 2
    /\ call.op = "predict"
    /\ call.user_id = ""
    /\ resp.status = 200
    /\ inserted["A"] = <<1>>
    /\ DOMAIN prediction_history = {"A"}
    /\ Len(prediction_history["A"]) = 1
    /\ Len(db) = 1

\* the requests of subject u in flight that have executed their insert
InsertedTasks(u) ==
    {i \in DOMAIN loop.tasks :
        /\ loop.tasks[i].user_id = u
        /\ loop.tasks[i].pc \in {"truncate", "save", "return", "done"}}

\* the calls of the rows of the log of subject u, in the order of the appends
DbReqSeq(u) == ReqSeq(SelectSeq(db, LAMBDA row : row.user_id = u))

\* C23: however concurrent predict requests of one subject are interleaved,
\* their insert-at-head and truncate steps are serialized: every request's
\* record is in the subject's cache exactly once, the cache is the newest
\* records inserted (no update is lost), it holds at most 500 records
\* whenever no request is between its insert and its truncate, and the
\* records that are in the cache and in the log are in the cache in the
\* reverse of the order of their rows.
C23_SameSubjectWritesSerialized ==
    \A u \in Users :
        LET history == CacheGet(prediction_history, u)
            logged == DbReqs(u)
            cached == Reqs(history)
        IN  /\ \A i \in InsertedTasks(u) : Copies(history, loop.tasks[i].record.req) = 1
            /\ ReqSeq(history) = Newest(inserted[u], Len(history))
            /\ Len(history) >= Min(Len(inserted[u]), CacheMax)
            /\ (\A i \in InsertedTasks(u) : loop.tasks[i].pc # "truncate") =>
                  Len(history) <= CacheMax
            /\ SelectSeq(ReqSeq(history), LAMBDA r : r \in logged)
                  = Reverse(SelectSeq(DbReqSeq(u), LAMBDA r : r \in cached))

\* three requests of subject A have been served concurrently on top of 499
\* earlier records: the cache is full and has dropped the two oldest
C23_Witness ==
    /\ \A i \in DOMAIN loop.tasks :
          loop.tasks[i].user_id = "A" /\ loop.tasks[i].pc = "done"
    /\ Len(loop.tasks) >= 3
    /\ Len(CacheGet(prediction_history, "A")) = CacheMax
    /\ Len(db) = CacheMax - 1 + Len(loop.tasks)
    /\ 1 \notin Reqs(CacheGet(prediction_history, "A"))
    /\ prediction_history["A"][1].req = nreq

\* the ids of a list of records are pairwise distinct
DistinctIds(records) ==
    \A i, j \in 1..Len(records) : i # j => records[i].id # records[j].id

\* C24: the ids of the records of one subject's history are pairwise
\* distinct: two predict calls of a subject never produce records with the
\* same id, also when both are served within one millisecond.
C24_HistoryIdsDistinct ==
    /\ \A u \in Users : DistinctIds(CacheGet(prediction_history, u))
    /\ resp.op = "history" => DistinctIds(resp.predictions)

\* the artifacts the service expects, and whether each is loaded
Expected == ModelNames \cup {"preprocessor"}

IsLoaded(artifact) ==
    IF artifact = "preprocessor" THEN srv.env.preprocessor
    ELSE artifact \in srv.env.models

\* C26: health reports "degraded" exactly when one of the three expected
\* models or the preprocessor is not loaded and "healthy" otherwise, and the
\* flag of each artifact is true exactly when the artifact is loaded.
C26_HealthReflectsArtifacts ==
    resp.op = "health" =>
        /\ resp.status \in {"healthy", "degraded"}
        /\ resp.status = "degraded" <=> \E a \in Expected : ~IsLoaded(a)
        /\ DOMAIN resp.models_loaded = Expected
        /\ \A a \in Expected : resp.models_loaded[a] <=> IsLoaded(a)

\* health answered with all three models but without the preprocessor
C26_Witness ==
    /\ resp.op = "health"
    /\ srv.env.models = ModelNames
    /\ ~srv.env.preprocessor
    /\ resp.status = "degraded"
    /\ resp.models_loaded["xgboost"]

\* a cached list after a step: as it was, or one record put in front of it,
\* records being dropped at its end only beyond the 500 most recent
CacheKept(old, new) ==
    \/ new = old
    \/ /\ Len(new) >= 1
       /\ Tail(new) = SubSeq(old, 1, Len(new) - 1)
       /\ Len(new) - 1 < Len(old) => Len(new) = CacheMax

\* C25: history is append-only.  Only init_db(reset=True) removes or alters
\* rows of the log; no operation alters a record in the cache, which a
\* record leaves only by truncation beyond the 500 most recent (the cache
\* itself is lost when the process restarts); history, health and model-info
\* change neither, and predict only adds a record.
C25_HistoryAppendOnly ==
    [][/\ call'.op # "init_db" =>
             Len(db') >= Len(db) /\ SubSeq(db', 1, Len(db)) = db
       /\ call'.op # "startup" =>
             \A u \in DOMAIN prediction_history :
                 /\ u \in DOMAIN prediction_history'
                 /\ CacheKept(prediction_history[u], prediction_history'[u])
       /\ call'.op \in {"history", "health", "model_info"} =>
             prediction_history' = prediction_history /\ db' = db]_vars

\* two predictions of A on top of the 499: the cache is full, the two oldest
\* records have left it, the log has every row
C25_Witness ==
    /\ call.op = "predict"
    /\ resp.status = 200
    /\ nreq = CacheMax + 1
    /\ Len(CacheGet(prediction_history, "A")) = CacheMax
    /\ Reqs(CacheGet(prediction_history, "A")) = 2..(CacheMax + 1)
    /\ DbReqs("A") = 1..(CacheMax + 1)

\* the id under which fetch_history_from_db reports the row of call r
DbIdOf(user_id, r) ==
    LET rows == fetch_history_from_db(db, user_id, -1)
    IN  rows[CHOOSE i \in 1..Len(rows) : rows[i].req = r].id

\* C27: a prediction has one id in both tiers: the id of its record in the
\* cache is the id under which fetch_history_from_db reports its row, so the
\* merge of history can match the two copies.
C27_OneIdInBothTiers ==
    \A u \in Users :
        LET mem_history == CacheGet(prediction_history, u)
        IN  \A i \in 1..Len(mem_history) :
                mem_history[i].req \in DbReqs(u) =>
                    mem_history[i].id = DbIdOf(u, mem_history[i].req)

\* a predict request answered with an error
FailedPredictStep == nreq' = nreq + 1 /\ resp'.status # 200

\* C28: every record in the cache belongs to a predict that completed
\* successfully: a predict that ends in an error response leaves the cache
\* and the log as they were, so history shows no prediction whose caller
\* received an error.
C28_FailedPredictLeavesNoRecord ==
    [][FailedPredictStep =>
          /\ prediction_history' = prediction_history
          /\ db' = db]_vars

====
